---- MODULE Spec2Model ----
(***************************************************************************)
(* Model of app.py: a Streamlit form with two modes, a character counter   *)
(* and a BMI calculator.                                                   *)
(*                                                                         *)
(* A Python str is a sequence of characters, each character one code point *)
(* written as a one-character string (non-ASCII code points are written    *)
(* "U+XXXX").  A Python float is a record                                  *)
(*     [k, neg, n, d, e]   with value  (-1)^neg * (n / d) * 10^e           *)
(* for k = "fin"; k = "nan" and k = "inf" are the IEEE-754 specials and    *)
(* k = "ValueError" is the exception float() raises.  Finite arithmetic is *)
(* exact decimal arithmetic; the range of a double is kept (overflow to    *)
(* inf, underflow to 0.0) but not its 53-bit rounding.                     *)
(***************************************************************************)
EXTENDS Integers, Sequences, FiniteSets

(***************************************************************************)
(* Bounds of the model.                                                    *)
(***************************************************************************)
MaxLen == 2

(***************************************************************************)
(* Constants of app.py, lines 6-10.                                        *)
(***************************************************************************)
MAX_HEIGHT == 300
MAX_WEIGHT == 1000

(***************************************************************************)
(* Python values.                                                          *)
(***************************************************************************)
None == <<"NoneType">>

Fin(neg, n, d, e) == [k |-> "fin", neg |-> neg, n |-> n, d |-> d, e |-> e]
NaN == [k |-> "nan", neg |-> FALSE, n |-> 0, d |-> 1, e |-> 0]
Inf(neg) == [k |-> "inf", neg |-> neg, n |-> 0, d |-> 1, e |-> 0]
ValueError == [k |-> "ValueError", neg |-> FALSE, n |-> 0, d |-> 1, e |-> 0]
Zero(neg) == Fin(neg, 0, 1, 0)

BMI_UNDERWEIGHT == Fin(FALSE, 185, 1, -1)
BMI_NORMAL == Fin(FALSE, 250, 1, -1)
BMI_OVERWEIGHT == Fin(FALSE, 300, 1, -1)

(***************************************************************************)
(* Decimal helpers.  Every intermediate value stays below 2^31.            *)
(***************************************************************************)
RECURSIVE NumDigits(_)
NumDigits(x) == IF x < 10 THEN 1 ELSE 1 + NumDigits(x \div 10)

\* floor((n / d) * 10^k), saturating at 10^9, with a flag telling whether
\* anything was cut off
RECURSIVE DivScaled(_, _, _, _)
DivScaled(q, r, d, k) ==
    IF k = 0 \/ q >= 100000000
    THEN [q |-> IF k > 0 THEN 1000000000 ELSE q, cut |-> r # 0]
    ELSE DivScaled(q * 10 + (r * 10) \div d, (r * 10) % d, d, k - 1)

RECURSIVE DivDown(_, _, _)
DivDown(q, cut, k) ==
    IF k = 0 \/ (q = 0 /\ cut)
    THEN [q |-> q, cut |-> cut]
    ELSE DivDown(q \div 10, cut \/ q % 10 # 0, k - 1)

Scaled(n, d, k) ==
    IF k >= 0
    THEN DivScaled(n \div d, n % d, d, k)
    ELSE DivDown(n \div d, n % d # 0, -k)

\* floor(log10(n / d)) for n > 0
RECURSIVE Log10Below(_, _, _)
Log10Below(n, d, j) == IF n >= d THEN j ELSE Log10Below(n * 10, d, j - 1)

Log10Floor(n, d) ==
    IF n >= d THEN NumDigits(n \div d) - 1 ELSE Log10Below(n, d, 0)

\* the first four significant digits of n / d, 1000..9999
Lead4(n, d) == Scaled(n, d, 3 - Log10Floor(n, d)).q

(***************************************************************************)
(* The range of a double: values of 1.798e308 and more become inf, values  *)
(* of 2.470e-324 and less become 0.0.                                      *)
(***************************************************************************)
DBL_MAX_10_EXP == 308
DBL_TRUE_MIN_10_EXP == -324

ToDouble(neg, n, d, e) ==
    IF n = 0 THEN Zero(neg)
    ELSE LET p == e + Log10Floor(n, d)
             lead == Lead4(n, d)
         IN  IF p > DBL_MAX_10_EXP \/ (p = DBL_MAX_10_EXP /\ lead >= 1798)
             THEN Inf(neg)
             ELSE IF p < DBL_TRUE_MIN_10_EXP
                     \/ (p = DBL_TRUE_MIN_10_EXP /\ lead <= 2470)
                  THEN Zero(neg)
                  ELSE Fin(neg, n, d, e)

(***************************************************************************)
(* float(str), app.py lines 56-57.                                         *)
(***************************************************************************)
Whitespace == {" "}
DigitChars == <<"0", "1", "2", "3", "4", "5", "6", "7", "8", "9">>

IsDigit(c) == \E i \in 1..10 : DigitChars[i] = c
DigitVal(c) == (CHOOSE i \in 1..10 : DigitChars[i] = c) - 1

Lower(c) ==
    CASE c = "N" -> "n" [] c = "A" -> "a" [] c = "I" -> "i" [] c = "F" -> "f"
      [] c = "T" -> "t" [] c = "Y" -> "y" [] c = "E" -> "e" [] OTHER -> c

LowerStr(s) == [i \in 1..Len(s) |-> Lower(s[i])]

RECURSIVE LStrip(_)
LStrip(s) == IF Len(s) > 0 /\ Head(s) \in Whitespace THEN LStrip(Tail(s)) ELSE s

RECURSIVE RStrip(_)
RStrip(s) ==
    IF Len(s) > 0 /\ s[Len(s)] \in Whitespace
    THEN RStrip(SubSeq(s, 1, Len(s) - 1))
    ELSE s

Strip(s) == RStrip(LStrip(s))

\* index of the first character of s that is in cs, 0 when there is none
IndexOf(s, cs) ==
    IF \E i \in 1..Len(s) : s[i] \in cs
    THEN CHOOSE i \in 1..Len(s) : s[i] \in cs /\ \A j \in 1..(i - 1) : s[j] \notin cs
    ELSE 0

\* digits, with single underscores allowed between two digits
IsDigitGroup(s) ==
    /\ Len(s) > 0
    /\ \A i \in 1..Len(s) :
          \/ IsDigit(s[i])
          \/ /\ s[i] = "_"
             /\ 1 < i
             /\ i < Len(s)
             /\ IsDigit(s[i - 1])
             /\ IsDigit(s[i + 1])

DigitsOnly(s) == SelectSeq(s, IsDigit)

RECURSIVE DigitsToNat(_)
DigitsToNat(s) ==
    IF Len(s) = 0 THEN 0
    ELSE DigitsToNat(SubSeq(s, 1, Len(s) - 1)) * 10 + DigitVal(s[Len(s)])

HasSign(s) == Len(s) > 0 /\ Head(s) \in {"+", "-"}
Unsigned(s) == IF HasSign(s) THEN Tail(s) ELSE s

ParseDecimal(neg, body) ==
    LET ePos == IndexOf(body, {"e", "E"})
        mant == IF ePos = 0 THEN body ELSE SubSeq(body, 1, ePos - 1)
        expo == IF ePos = 0 THEN <<>> ELSE SubSeq(body, ePos + 1, Len(body))
        dot  == IndexOf(mant, {"."})
        ip   == IF dot = 0 THEN mant ELSE SubSeq(mant, 1, dot - 1)
        fp   == IF dot = 0 THEN <<>> ELSE SubSeq(mant, dot + 1, Len(mant))
        mantOk == /\ Len(ip) = 0 \/ IsDigitGroup(ip)
                  /\ Len(fp) = 0 \/ IsDigitGroup(fp)
                  /\ Len(ip) > 0 \/ Len(fp) > 0
        expOk == ePos = 0 \/ IsDigitGroup(Unsigned(expo))
        frac == DigitsOnly(fp)
        expAbs == DigitsToNat(DigitsOnly(Unsigned(expo)))
        expVal == IF HasSign(expo) /\ Head(expo) = "-" THEN -expAbs ELSE expAbs
    IN  IF mantOk /\ expOk
        THEN ToDouble(neg, DigitsToNat(DigitsOnly(ip) \o frac), 1, expVal - Len(frac))
        ELSE ValueError

float(s) ==
    LET t == Strip(s)
        neg == HasSign(t) /\ Head(t) = "-"
        body == Unsigned(t)
        low == LowerStr(body)
    IN  IF low = <<"n", "a", "n">> THEN NaN
        ELSE IF low = <<"i", "n", "f">>
                \/ low = <<"i", "n", "f", "i", "n", "i", "t", "y">>
             THEN Inf(neg)
             ELSE ParseDecimal(neg, body)

(***************************************************************************)
(* Float comparison and arithmetic, as Python evaluates them on app.py     *)
(* lines 23, 35-39, 59 and 62.  Every comparison with nan is false.        *)
(***************************************************************************)
FromInt(i) == Fin(i < 0, IF i < 0 THEN -i ELSE i, 1, 0)

Sign(x) == IF x.k = "fin" /\ x.n = 0 THEN 0 ELSE IF x.neg THEN -1 ELSE 1

\* |x| against |c| for finite non-zero x and c, c.d = 1: -1, 0 or 1
CmpMag(x, c) ==
    LET s == Scaled(x.n, x.d, x.e - c.e)
    IN  IF s.q < c.n THEN -1 ELSE IF s.q > c.n \/ s.cut THEN 1 ELSE 0

\* x against the finite c, for x finite or infinite
Cmp(x, c) ==
    IF Sign(x) # Sign(c) THEN (IF Sign(x) < Sign(c) THEN -1 ELSE 1)
    ELSE IF Sign(x) = 0 THEN 0
    ELSE IF x.k = "inf" THEN Sign(x)
    ELSE Sign(x) * CmpMag(x, c)

IsNumber(x) == x.k \in {"fin", "inf"}

Lt(x, c) == IsNumber(x) /\ Cmp(x, c) < 0
Le(x, c) == IsNumber(x) /\ Cmp(x, c) <= 0
Gt(x, c) == IsNumber(x) /\ Cmp(x, c) > 0
Ge(x, c) == IsNumber(x) /\ Cmp(x, c) >= 0

ZeroDivisionError == [k |-> "ZeroDivisionError", neg |-> FALSE, n |-> 0, d |-> 1, e |-> 0]
OverflowError == [k |-> "OverflowError", neg |-> FALSE, n |-> 0, d |-> 1, e |-> 0]
Unbound == [k |-> "unbound", neg |-> FALSE, n |-> 0, d |-> 1, e |-> 0]

IsException(x) == x.k \in {"ValueError", "ZeroDivisionError", "OverflowError"}

\* powers of ten move from the denominator into the exponent
RECURSIVE Reduced(_, _, _, _)
Reduced(neg, n, d, e) ==
    IF d % 10 = 0 THEN Reduced(neg, n, d \div 10, e - 1) ELSE ToDouble(neg, n, d, e)

\* a / b
FDiv(a, b) ==
    IF b.k = "fin" /\ b.n = 0 THEN ZeroDivisionError
    ELSE IF a.k = "nan" \/ b.k = "nan" THEN NaN
    ELSE IF a.k = "inf" THEN (IF b.k = "inf" THEN NaN ELSE Inf(a.neg # b.neg))
    ELSE IF b.k = "inf" THEN Zero(a.neg # b.neg)
    ELSE Reduced(a.neg # b.neg, a.n * b.d, a.d * b.n, a.e - b.e)

\* a ** 2: an overflow raises, an underflow gives 0.0
FSquare(a) ==
    IF a.k = "nan" THEN NaN
    ELSE IF a.k = "inf" THEN Inf(FALSE)
    ELSE LET r == ToDouble(FALSE, a.n * a.n, a.d * a.d, 2 * a.e)
         IN  IF r.k = "inf" THEN OverflowError ELSE r

(***************************************************************************)
(* calculate_bmi, app.py lines 13-23.                                      *)
(***************************************************************************)
calculate_bmi(height, weight) ==
    LET squared == FSquare(FDiv(height, FromInt(100)))
    IN  IF IsException(squared) THEN squared ELSE FDiv(weight, squared)

(***************************************************************************)
(* get_bmi_category, app.py lines 26-42.  The labels are the Japanese      *)
(* labels of the source in translation.                                    *)
(***************************************************************************)
LABEL_UNDERWEIGHT == "Result: underweight"
LABEL_NORMAL == "Result: normal weight"
LABEL_OBESE_1 == "Result: obese (class 1)"
LABEL_OBESE_2 == "Result: obese (class 2 or more)"

\* variant: a boundary value stays in the lower bucket (<= for <)
get_bmi_category_BoundaryLow(b) ==
    IF Le(b, BMI_UNDERWEIGHT) THEN <<LABEL_UNDERWEIGHT, "info">>
    ELSE IF Le(b, BMI_NORMAL) THEN <<LABEL_NORMAL, "success">>
    ELSE IF Le(b, BMI_OVERWEIGHT) THEN <<LABEL_OBESE_1, "warning">>
    ELSE <<LABEL_OBESE_2, "error">>

get_bmi_category(b) ==
    IF Lt(b, BMI_UNDERWEIGHT) THEN <<LABEL_UNDERWEIGHT, "info">>
    ELSE IF Lt(b, BMI_NORMAL) THEN <<LABEL_NORMAL, "success">>
    ELSE IF Lt(b, BMI_OVERWEIGHT) THEN <<LABEL_OBESE_1, "warning">>
    ELSE <<LABEL_OBESE_2, "error">>

(***************************************************************************)
(* String formatting: str(int) on line 81 and format(float, ".1f") on line *)
(* 103.  ".1f" rounds to the nearest tenth, ties to the even digit.  The   *)
(* digits are those of the exact decimal value: a double agrees with them  *)
(* to about 15 significant digits, and where the exact value lies halfway  *)
(* between two tenths the double's own rounding error decides.             *)
(***************************************************************************)
RECURSIVE IntToStr(_)
IntToStr(i) ==
    IF i < 10 THEN <<DigitChars[i + 1]>>
    ELSE Append(IntToStr(i \div 10), DigitChars[(i % 10) + 1])

Zeros(k) == [i \in 1..k |-> "0"]

\* long division of the digit string num by d: the digits of the quotient
\* and the remainder
RECURSIVE LongDiv(_, _, _, _)
LongDiv(num, d, r, acc) ==
    IF Len(num) = 0 THEN [q |-> acc, r |-> r]
    ELSE LET cur == r * 10 + DigitVal(Head(num))
         IN  LongDiv(Tail(num), d, cur % d, Append(acc, DigitChars[(cur \div d) + 1]))

RECURSIVE StripZeros(_)
StripZeros(s) == IF Len(s) > 1 /\ Head(s) = "0" THEN StripZeros(Tail(s)) ELSE s

\* the digit string s plus one
RECURSIVE Increment(_)
Increment(s) ==
    IF Len(s) = 0 THEN <<"1">>
    ELSE IF s[Len(s)] = "9"
         THEN Append(Increment(SubSeq(s, 1, Len(s) - 1)), "0")
         ELSE Append(SubSeq(s, 1, Len(s) - 1), DigitChars[DigitVal(s[Len(s)]) + 2])

RECURSIVE Pow10(_)
Pow10(k) == IF k = 0 THEN 1 ELSE 10 * Pow10(k - 1)

\* the digits of floor(10 * |x|) and how the rest compares with one half
\* (-1 below, 0 equal, 1 above), for finite x
Tenths(x) ==
    IF x.e + 1 >= 0
    THEN LET ld == LongDiv(IntToStr(x.n) \o Zeros(x.e + 1), x.d, 0, <<>>)
         IN  [q |-> StripZeros(ld.q),
              half |-> IF 2 * ld.r < x.d THEN -1 ELSE IF 2 * ld.r = x.d THEN 0 ELSE 1]
    ELSE LET k == -(x.e + 1)
             q0 == x.n \div x.d
             r0 == x.n % x.d
         IN  IF k > 9 THEN [q |-> <<"0">>, half |-> -1]
             ELSE LET low == q0 % Pow10(k)
                      mid == 5 * Pow10(k - 1)
                  IN  [q |-> IntToStr(q0 \div Pow10(k)),
                       half |-> IF low < mid THEN -1
                                ELSE IF low = mid /\ r0 = 0 THEN 0 ELSE 1]

FormatFixed1(x) ==
    IF x.k = "nan" THEN <<"n", "a", "n">>
    ELSE IF x.k = "inf"
         THEN (IF x.neg THEN <<"-">> ELSE <<>>) \o <<"i", "n", "f">>
         ELSE LET t == Tenths(x)
                  odd == DigitVal(t.q[Len(t.q)]) % 2 = 1
                  r == IF t.half > 0 \/ (t.half = 0 /\ odd) THEN Increment(t.q) ELSE t.q
                  p == IF Len(r) = 1 THEN <<"0">> \o r ELSE r
              IN  (IF x.neg THEN <<"-">> ELSE <<>>)
                     \o SubSeq(p, 1, Len(p) - 1) \o <<".", p[Len(p)]>>

(***************************************************************************)
(* The presentation layer: a call st.<fn>(text).  A text is a sequence of  *)
(* strings, the literal parts of the source's messages (in translation)    *)
(* kept whole and the formatted parts character by character.              *)
(***************************************************************************)
Call(fn, text) == [fn |-> fn, text |-> text]

MSG_NOT_POSITIVE == "Enter height and weight as positive numbers."
MSG_OUT_OF_RANGE == "Height and weight are out of range. Enter appropriate values."
MSG_NOT_NUMERIC == "Enter height and weight as numbers."
MSG_NO_TEXT == "Enter the text to count, then press Execute."
MSG_MISSING_FIELD == "Enter both height and weight."

\* "if x" / "not x" on an Optional[str]
Truthy(x) == x # None /\ Len(x) > 0

(***************************************************************************)
(* validate_inputs, app.py lines 45-70: the value returned (<<>> is None)  *)
(* and the messages shown.                                                 *)
(***************************************************************************)
\* variant: the height is checked before the weight is parsed
validate_inputs_HeightFirst(h, w) ==
    LET height_float == float(h)
        weight_float == float(w)
    IN  IF height_float = ValueError
        THEN [ret |-> <<>>, out |-> <<Call("error", <<MSG_NOT_NUMERIC>>)>>]
        ELSE IF Le(height_float, FromInt(0))
        THEN [ret |-> <<>>, out |-> <<Call("error", <<MSG_NOT_POSITIVE>>)>>]
        ELSE IF weight_float = ValueError
        THEN [ret |-> <<>>, out |-> <<Call("error", <<MSG_NOT_NUMERIC>>)>>]
        ELSE IF Le(weight_float, FromInt(0))
        THEN [ret |-> <<>>, out |-> <<Call("error", <<MSG_NOT_POSITIVE>>)>>]
        ELSE IF Gt(height_float, FromInt(MAX_HEIGHT)) \/ Gt(weight_float, FromInt(MAX_WEIGHT))
        THEN [ret |-> <<>>, out |-> <<Call("error", <<MSG_OUT_OF_RANGE>>)>>]
        ELSE [ret |-> <<height_float, weight_float>>, out |-> <<>>]

\* variant: the upper bounds are checked before the signs
validate_inputs_RangeFirst(h, w) ==
    LET height_float == float(h)
        weight_float == float(w)
    IN  IF height_float = ValueError \/ weight_float = ValueError
        THEN [ret |-> <<>>, out |-> <<Call("error", <<MSG_NOT_NUMERIC>>)>>]
        ELSE IF Gt(height_float, FromInt(MAX_HEIGHT)) \/ Gt(weight_float, FromInt(MAX_WEIGHT))
        THEN [ret |-> <<>>, out |-> <<Call("error", <<MSG_OUT_OF_RANGE>>)>>]
        ELSE IF Le(height_float, FromInt(0)) \/ Le(weight_float, FromInt(0))
        THEN [ret |-> <<>>, out |-> <<Call("error", <<MSG_NOT_POSITIVE>>)>>]
        ELSE [ret |-> <<height_float, weight_float>>, out |-> <<>>]

\* variant: the upper bounds are themselves rejected (>= for >)
validate_inputs_BoundsRejected(h, w) ==
    LET height_float == float(h)
        weight_float == float(w)
    IN  IF height_float = ValueError \/ weight_float = ValueError
        THEN [ret |-> <<>>, out |-> <<Call("error", <<MSG_NOT_NUMERIC>>)>>]
        ELSE IF Le(height_float, FromInt(0)) \/ Le(weight_float, FromInt(0))
        THEN [ret |-> <<>>, out |-> <<Call("error", <<MSG_NOT_POSITIVE>>)>>]
        ELSE IF Ge(height_float, FromInt(MAX_HEIGHT)) \/ Ge(weight_float, FromInt(MAX_WEIGHT))
        THEN [ret |-> <<>>, out |-> <<Call("error", <<MSG_OUT_OF_RANGE>>)>>]
        ELSE [ret |-> <<height_float, weight_float>>, out |-> <<>>]

\* variant: a value out of range is refused without a message
validate_inputs_SilentRange(h, w) ==
    LET height_float == float(h)
        weight_float == float(w)
    IN  IF height_float = ValueError \/ weight_float = ValueError
        THEN [ret |-> <<>>, out |-> <<Call("error", <<MSG_NOT_NUMERIC>>)>>]
        ELSE IF Le(height_float, FromInt(0)) \/ Le(weight_float, FromInt(0))
        THEN [ret |-> <<>>, out |-> <<Call("error", <<MSG_NOT_POSITIVE>>)>>]
        ELSE IF Gt(height_float, FromInt(MAX_HEIGHT)) \/ Gt(weight_float, FromInt(MAX_WEIGHT))
        THEN [ret |-> <<>>, out |-> <<>>]
        ELSE [ret |-> <<height_float, weight_float>>, out |-> <<>>]

validate_inputs(h, w) ==
    LET height_float == float(h)
        weight_float == float(w)
    IN  IF height_float = ValueError \/ weight_float = ValueError
        THEN [ret |-> <<>>, out |-> <<Call("error", <<MSG_NOT_NUMERIC>>)>>]
        ELSE IF Le(height_float, FromInt(0)) \/ Le(weight_float, FromInt(0))
        THEN [ret |-> <<>>, out |-> <<Call("error", <<MSG_NOT_POSITIVE>>)>>]
        ELSE IF Gt(height_float, FromInt(MAX_HEIGHT)) \/ Gt(weight_float, FromInt(MAX_WEIGHT))
        THEN [ret |-> <<>>, out |-> <<Call("error", <<MSG_OUT_OF_RANGE>>)>>]
        ELSE [ret |-> <<height_float, weight_float>>, out |-> <<>>]

(***************************************************************************)
(* display_text_counter, app.py lines 73-83.                               *)
(***************************************************************************)
\* variant: "if text is not None" for "if text"
display_text_counter_NotNone(text) ==
    IF text # None
    THEN <<Call("write", <<"Characters: **">> \o IntToStr(Len(text)) \o <<"**">>)>>
    ELSE <<Call("error", <<MSG_NO_TEXT>>)>>

display_text_counter(text) ==
    IF Truthy(text)
    THEN <<Call("write", <<"Characters: **">> \o IntToStr(Len(text)) \o <<"**">>)>>
    ELSE <<Call("error", <<MSG_NO_TEXT>>)>>

(***************************************************************************)
(* display_bmi_result, app.py lines 86-115: the messages shown, the        *)
(* functions entered, the exception that escapes and the locals.           *)
(***************************************************************************)
Frame(out, calls, raised, validated, b, cat) ==
    [out |-> out, calls |-> calls, raised |-> raised,
     validated_inputs |-> validated, bmi |-> b, category |-> cat]

ShowCategory(cat) ==
    IF cat[2] = "info" THEN Call("info", <<cat[1]>>)
    ELSE IF cat[2] = "success" THEN Call("success", <<cat[1]>>)
    ELSE IF cat[2] = "warning" THEN Call("warning", <<cat[1]>>)
    ELSE Call("error", <<cat[1]>>)

\* lines 97-115: both fields are filled
display_validated_bmi(h, w) ==
    LET v == validate_inputs(h, w)
    IN  IF v.ret = <<>>
        THEN Frame(v.out, <<"display_bmi_result", "validate_inputs">>,
                   "none", <<>>, Unbound, <<>>)
        ELSE LET b == calculate_bmi(v.ret[1], v.ret[2])
                 cat == get_bmi_category(b)
             IN  IF IsException(b)
                 THEN Frame(v.out,
                            <<"display_bmi_result", "validate_inputs", "calculate_bmi">>,
                            b.k, v.ret, Unbound, <<>>)
                 ELSE Frame(v.out
                              \o <<Call("write", <<"BMI: **">> \o FormatFixed1(b) \o <<"**">>)>>
                              \o <<ShowCategory(cat)>>,
                            <<"display_bmi_result", "validate_inputs", "calculate_bmi",
                              "get_bmi_category">>,
                            "none", v.ret, b, cat)

\* variant: "is None" for "not", so that an empty field is parsed
display_bmi_result_IsNone(h, w) ==
    IF h = None \/ w = None
    THEN Frame(<<Call("error", <<MSG_MISSING_FIELD>>)>>, <<"display_bmi_result">>,
               "none", <<>>, Unbound, <<>>)
    ELSE display_validated_bmi(h, w)

display_bmi_result(h, w) ==
    IF ~Truthy(h) \/ ~Truthy(w)
    THEN Frame(<<Call("error", <<MSG_MISSING_FIELD>>)>>, <<"display_bmi_result">>,
               "none", <<>>, Unbound, <<>>)
    ELSE display_validated_bmi(h, w)

(***************************************************************************)
(* The values the user types.                                              *)
(***************************************************************************)
Alphabet == {"5", "0", "-", "."}

Typed == UNION {[1..n -> Alphabet] : n \in 0..MaxLen}

HeightSamples ==
    { <<"1", "7", "0", ".", "5">>, <<"1", "5", "0">>, <<"1", "0", "0">>,
      <<"3", "0", "0">>, <<"3", "0", "1">>, <<"-", "5">>, <<"n", "a", "n">>,
      <<"i", "n", "f">>, <<"1", "e", "-", "2", "0", "0">>, <<"a", "b", "c">> }

WeightSamples ==
    { <<"6", "5", ".", "0">>, <<"1", "0", "0">>, <<"6", "0">>, <<"1", "8", ".", "5">>,
      <<"2", "5">>, <<"3", "0">>, <<"1", "0", "0", "0">>, <<"1", "0", "0", "1">>,
      <<"2", "0", "0", "0">>, <<"N", "a", "N">>, <<" ", "6", "0">>, <<"x">> }

TextSamples ==
    { <<"h", "e", "l", "l", "o">>,
      <<"U+3053", "U+3093", "U+306B", "U+3061", "U+306F">> }

HeightValues == Typed \cup HeightSamples
WeightValues == Typed \cup WeightSamples
TextValues == Typed \cup TextSamples

(***************************************************************************)
(* The state: the selected mode and what get_input_values returns for it,  *)
(* and what the latest run of main() did after the button.  The header,   *)
(* the dividers and the widgets themselves are not part of the state.      *)
(***************************************************************************)
VARIABLES selected_item, input_message, height, weight,
          out, calls, raised, validated_inputs, bmi, category

vars == <<selected_item, input_message, height, weight,
          out, calls, raised, validated_inputs, bmi, category>>

MODE_TEXT == "text count"
MODE_BMI == "BMI calculation"

\* get_input_values, app.py lines 127-151, given the widgets' values
get_input_values(mode, text, h, w) ==
    IF mode = MODE_TEXT THEN <<text, None, None>> ELSE <<None, h, w>>

\* a run of main() in which the button is not pressed shows no result
Idle ==
    /\ out' = <<>>
    /\ calls' = <<>>
    /\ raised' = "none"
    /\ validated_inputs' = <<>>
    /\ bmi' = Unbound
    /\ category' = <<>>

Shows(f) ==
    /\ out' = f.out
    /\ calls' = f.calls
    /\ raised' = f.raised
    /\ validated_inputs' = f.validated_inputs
    /\ bmi' = f.bmi
    /\ category' = f.category

Inputs(mode, text, h, w) ==
    /\ selected_item' = mode
    /\ input_message' = get_input_values(mode, text, h, w)[1]
    /\ height' = get_input_values(mode, text, h, w)[2]
    /\ weight' = get_input_values(mode, text, h, w)[3]

Init ==
    /\ selected_item = MODE_TEXT
    /\ input_message = <<>>
    /\ height = None
    /\ weight = None
    /\ out = <<>>
    /\ calls = <<>>
    /\ raised = "none"
    /\ validated_inputs = <<>>
    /\ bmi = Unbound
    /\ category = <<>>

\* the radio button, app.py lines 158-165: the other mode's fields are new
SelectMode(mode) ==
    /\ mode # selected_item
    /\ Inputs(mode, <<>>, <<>>, <<>>)
    /\ Idle

EnterText(s) ==
    /\ selected_item = MODE_TEXT
    /\ s # input_message
    /\ Inputs(MODE_TEXT, s, height, weight)
    /\ Idle

EnterHeight(s) ==
    /\ selected_item = MODE_BMI
    /\ s # height
    /\ Inputs(MODE_BMI, input_message, s, weight)
    /\ Idle

EnterWeight(s) ==
    /\ selected_item = MODE_BMI
    /\ s # weight
    /\ Inputs(MODE_BMI, input_message, height, s)
    /\ Idle

\* the button, app.py lines 167-173
Execute ==
    /\ UNCHANGED <<selected_item, input_message, height, weight>>
    /\ IF selected_item = MODE_TEXT
       THEN Shows(Frame(display_text_counter(input_message), <<"display_text_counter">>,
                        "none", <<>>, Unbound, <<>>))
       ELSE Shows(display_bmi_result(height, weight))

Next ==
    \/ \E mode \in {MODE_TEXT, MODE_BMI} : SelectMode(mode)
    \/ \E s \in TextValues : EnterText(s)
    \/ \E s \in HeightValues : EnterHeight(s)
    \/ \E s \in WeightValues : EnterWeight(s)
    \/ Execute

Spec == Init /\ [][Next]_vars

(***************************************************************************)
(* The functions called on their own: a test picks the arguments, which    *)
(* include strings the form cannot deliver (None) and BMI values no        *)
(* measurement gives, and then makes one call.                             *)
(***************************************************************************)
BmiValues ==
    {float(s) : s \in HeightValues \cup WeightValues} \ {ValueError}

NotCalled ==
    /\ out = <<>>
    /\ calls = <<>>
    /\ raised = "none"
    /\ validated_inputs = <<>>
    /\ category = <<>>

InitUnit ==
    /\ NotCalled
    /\ \/ /\ selected_item = MODE_TEXT
          /\ input_message \in TextValues \cup {None}
          /\ height = None
          /\ weight = None
          /\ bmi = Unbound
       \/ /\ selected_item = MODE_BMI
          /\ input_message = None
          /\ height \in HeightValues \cup {None}
          /\ weight \in WeightValues \cup {None}
          /\ bmi = Unbound
       \/ /\ selected_item = MODE_BMI
          /\ input_message = None
          /\ height = None
          /\ weight = None
          /\ bmi \in BmiValues

UnitValidate ==
    /\ calls = <<>>
    /\ height # None
    /\ weight # None
    /\ UNCHANGED <<selected_item, input_message, height, weight>>
    /\ Shows(Frame(validate_inputs(height, weight).out, <<"validate_inputs">>, "none",
                   validate_inputs(height, weight).ret, Unbound, <<>>))

UnitClassify ==
    /\ calls = <<>>
    /\ bmi # Unbound
    /\ UNCHANGED <<selected_item, input_message, height, weight>>
    /\ Shows(Frame(<<>>, <<"get_bmi_category">>, "none", <<>>, bmi, get_bmi_category(bmi)))

UnitTextCounter ==
    /\ calls = <<>>
    /\ selected_item = MODE_TEXT
    /\ UNCHANGED <<selected_item, input_message, height, weight>>
    /\ Shows(Frame(display_text_counter(input_message), <<"display_text_counter">>,
                   "none", <<>>, Unbound, <<>>))

UnitDisplayBmi ==
    /\ calls = <<>>
    /\ selected_item = MODE_BMI
    /\ bmi = Unbound
    /\ UNCHANGED <<selected_item, input_message, height, weight>>
    /\ Shows(display_bmi_result(height, weight))

NextUnit ==
    \/ UnitValidate
    \/ UnitClassify
    \/ UnitTextCounter
    \/ UnitDisplayBmi

SpecUnit == InitUnit /\ [][NextUnit]_vars

(***************************************************************************)
(* Vocabulary of the properties.                                           *)
(***************************************************************************)
Hello == <<"h", "e", "l", "l", "o">>
Konnichiwa == <<"U+3053", "U+3093", "U+306B", "U+3061", "U+306F">>

Parses(s) == float(s) # ValueError
NonPositive(x) == (x.k = "fin" /\ (x.neg \/ x.n = 0)) \/ (x.k = "inf" /\ x.neg)
StrictlyPositive(x) == (x.k = "fin" /\ ~x.neg /\ x.n > 0) \/ (x.k = "inf" /\ ~x.neg)
Exceeds(x, max) == Gt(x, FromInt(max))
Measurement(h, w) ==
    /\ StrictlyPositive(h) /\ ~Exceeds(h, MAX_HEIGHT)
    /\ StrictlyPositive(w) /\ ~Exceeds(w, MAX_WEIGHT)

ErrorOnly(msg) == out = <<Call("error", <<msg>>)>>
ValidateCalled == calls = <<"validate_inputs">>
Executed == calls # <<>>
NothingComputed == validated_inputs = <<>> /\ bmi = Unbound /\ category = <<>>

(***************************************************************************)
(* Properties of the functions (SpecUnit).                                 *)
(***************************************************************************)

\* C1: when either string does not parse as a number, validate_inputs returns
\* None and shows exactly the 'not numeric' error, whatever the other string is
C1_NotNumeric ==
    (ValidateCalled /\ (~Parses(height) \/ ~Parses(weight)))
        => (validated_inputs = <<>> /\ ErrorOnly(MSG_NOT_NUMERIC))

C1_Witness ==
    /\ ValidateCalled
    /\ height = <<"-", "5">>
    /\ weight = <<"x">>
    /\ ErrorOnly(MSG_NOT_NUMERIC)

\* C2: when both strings parse and a value is <= 0, validate_inputs returns
\* None with the 'not positive' error, also when the other value is too large
C2_NonPositive ==
    (/\ ValidateCalled
     /\ Parses(height)
     /\ Parses(weight)
     /\ NonPositive(float(height)) \/ NonPositive(float(weight)))
        => (validated_inputs = <<>> /\ ErrorOnly(MSG_NOT_POSITIVE))

C2_Witness ==
    /\ ValidateCalled
    /\ height = <<"-", "5">>
    /\ weight = <<"2", "0", "0", "0">>
    /\ ErrorOnly(MSG_NOT_POSITIVE)

\* C3: when both values are strictly positive and height > 300 or
\* weight > 1000, validate_inputs returns None with the 'out of range' error;
\* a height of exactly 300 and a weight of exactly 1000 are accepted
C3_OutOfRange ==
    ValidateCalled /\ Parses(height) /\ Parses(weight) =>
        LET h == float(height)
            w == float(weight)
        IN  /\ (/\ StrictlyPositive(h)
                /\ StrictlyPositive(w)
                /\ Exceeds(h, MAX_HEIGHT) \/ Exceeds(w, MAX_WEIGHT))
                   => (validated_inputs = <<>> /\ ErrorOnly(MSG_OUT_OF_RANGE))
            /\ (/\ Measurement(h, w)
                /\ Cmp(h, FromInt(MAX_HEIGHT)) = 0 \/ Cmp(w, FromInt(MAX_WEIGHT)) = 0)
                   => (validated_inputs = <<h, w>> /\ out = <<>>)

C3_Witness ==
    /\ ValidateCalled
    /\ height = <<"3", "0", "1">>
    /\ weight = <<"1", "0", "0", "0">>
    /\ ErrorOnly(MSG_OUT_OF_RANGE)

\* C6: get_bmi_category gives every value exactly one of the four categories:
\* below 18.5 underweight/info (negative values too), from 18.5 and below 25
\* normal/success, from 25 and below 30 class 1/warning, from 30 class 2 or
\* more/error, each boundary value belonging to the higher bucket
C6_Classify ==
    calls = <<"get_bmi_category">> =>
        /\ category \in { <<LABEL_UNDERWEIGHT, "info">>, <<LABEL_NORMAL, "success">>,
                          <<LABEL_OBESE_1, "warning">>, <<LABEL_OBESE_2, "error">> }
        /\ Lt(bmi, BMI_UNDERWEIGHT) => category = <<LABEL_UNDERWEIGHT, "info">>
        /\ Ge(bmi, BMI_UNDERWEIGHT) /\ Lt(bmi, BMI_NORMAL)
              => category = <<LABEL_NORMAL, "success">>
        /\ Ge(bmi, BMI_NORMAL) /\ Lt(bmi, BMI_OVERWEIGHT)
              => category = <<LABEL_OBESE_1, "warning">>
        /\ Ge(bmi, BMI_OVERWEIGHT) => category = <<LABEL_OBESE_2, "error">>
        /\ (IsNumber(bmi) /\ bmi.neg) => category = <<LABEL_UNDERWEIGHT, "info">>

C6_Witness ==
    /\ calls = <<"get_bmi_category">>
    /\ bmi = float(<<"1", "8", ".", "5">>)
    /\ category = <<LABEL_NORMAL, "success">>

\* C7: display_text_counter shows one error and no count for None and for the
\* empty string, and for any other text exactly its number of characters (5
\* for "hello" and for the five-character Japanese greeting) and no error
C7_TextCount ==
    calls = <<"display_text_counter">> =>
        IF input_message = None \/ input_message = <<>>
        THEN ErrorOnly(MSG_NO_TEXT)
        ELSE /\ Len(out) = 1
             /\ out[1].fn = "write"
             /\ Len(out[1].text) >= 3
             /\ LET t == out[1].text
                    digits == SubSeq(t, 2, Len(t) - 1)
                IN  /\ t[1] = "Characters: **"
                    /\ t[Len(t)] = "**"
                    /\ \A i \in 1..Len(digits) : IsDigit(digits[i])
                    /\ Len(digits) = 1 \/ digits[1] # "0"
                    /\ DigitsToNat(digits) = Len(input_message)
                    /\ input_message \in {Hello, Konnichiwa} => digits = <<"5">>

C7_Witness ==
    /\ calls = <<"display_text_counter">>
    /\ input_message = Konnichiwa
    /\ out = <<Call("write", <<"Characters: **", "5", "**">>)>>

\* C8: when the height or the weight is empty or None, display_bmi_result
\* shows the 'missing field' error and stops before any parsing: none of
\* validate_inputs, calculate_bmi and get_bmi_category is entered and no other
\* error, BMI value or category is produced, whatever the other field holds
C8_MissingField ==
    (/\ Len(calls) > 0
     /\ calls[1] = "display_bmi_result"
     /\ height \in {None, <<>>} \/ weight \in {None, <<>>})
        => /\ ErrorOnly(MSG_MISSING_FIELD)
           /\ calls = <<"display_bmi_result">>
           /\ raised = "none"
           /\ NothingComputed

C8_Witness ==
    /\ calls = <<"display_bmi_result">>
    /\ height = <<>>
    /\ weight = <<"6", "0">>
    /\ ErrorOnly(MSG_MISSING_FIELD)

(***************************************************************************)
(* Properties of the form (Spec).                                          *)
(***************************************************************************)
BothFilled == Truthy(height) /\ Truthy(weight)

\* the error condition of the current inputs, "none" when there is none
ErrorCondition ==
    IF selected_item = MODE_TEXT
    THEN (IF Truthy(input_message) THEN "none" ELSE MSG_NO_TEXT)
    ELSE IF ~BothFilled THEN MSG_MISSING_FIELD
    ELSE IF ~Parses(height) \/ ~Parses(weight) THEN MSG_NOT_NUMERIC
    ELSE IF NonPositive(float(height)) \/ NonPositive(float(weight)) THEN MSG_NOT_POSITIVE
    ELSE IF Exceeds(float(height), MAX_HEIGHT) \/ Exceeds(float(weight), MAX_WEIGHT)
    THEN MSG_OUT_OF_RANGE
    ELSE "none"

\* the quotient w / (h/100)^2 of IEEE-754, where a division of a non-zero
\* value by zero is infinite
Quotient(h, w) ==
    LET squared == FSquare(FDiv(h, FromInt(100)))
    IN  IF squared = Zero(FALSE) /\ w.k = "fin" /\ w.n > 0
        THEN Inf(FALSE)
        ELSE FDiv(w, squared)

\* C4: for every pair with 0 < h <= 300 and 0 < w <= 1000, validate_inputs
\* shows no error and returns the pair as parsed, and calculate_bmi returns
\* w / (h/100)^2 for it
C4_ValidPair ==
    (/\ Executed
     /\ selected_item = MODE_BMI
     /\ BothFilled
     /\ Parses(height)
     /\ Parses(weight)
     /\ Measurement(float(height), float(weight)))
        => /\ validated_inputs = <<float(height), float(weight)>>
           /\ \A i \in 1..Len(out) : out[i].text # <<MSG_NOT_NUMERIC>>
                                     /\ out[i].text # <<MSG_NOT_POSITIVE>>
                                     /\ out[i].text # <<MSG_OUT_OF_RANGE>>
           /\ raised = "none"
           /\ bmi = Quotient(float(height), float(weight))

\* C5: a pair returned by validate_inputs has both values strictly positive,
\* height <= 300 and weight <= 1000, so that calculate_bmi is entered only
\* with height > 0 and never divides by zero
C5_ValidatedRange ==
    validated_inputs # <<>> =>
        /\ Measurement(validated_inputs[1], validated_inputs[2])
        /\ raised # "ZeroDivisionError"

\* C9: an execute that meets an error condition shows exactly one error
\* message, the one of that condition, and nothing else: no BMI value, no
\* category and no count
C9_OneError ==
    (Executed /\ ErrorCondition # "none")
        => /\ ErrorOnly(ErrorCondition)
           /\ raised = "none"
           /\ bmi = Unbound
           /\ category = <<>>

C9_Witness ==
    /\ Executed
    /\ height = <<"-", "5">>
    /\ weight = <<"6", "0">>
    /\ ErrorOnly(MSG_NOT_POSITIVE)
    /\ bmi = Unbound

\* C10: an execute in BMI mode whose two filled fields validate shows exactly
\* two outputs: the BMI value as plain text to one decimal place, then one
\* category message with the label and the severity get_bmi_category gives
C10_TwoOutputs ==
    (/\ Executed
     /\ selected_item = MODE_BMI
     /\ BothFilled
     /\ validated_inputs # <<>>)
        => /\ Len(out) = 2
           /\ out[1] = Call("write", <<"BMI: **">> \o FormatFixed1(bmi) \o <<"**">>)
           /\ out[2] = Call(get_bmi_category(bmi)[2], <<get_bmi_category(bmi)[1]>>)
           /\ (height = <<"1", "7", "0", ".", "5">> /\ weight = <<"6", "5", ".", "0">>)
                 => /\ out[1].text = <<"BMI: **", "2", "2", ".", "4", "**">>
                    /\ out[2] = Call("success", <<LABEL_NORMAL>>)
           /\ (height = <<"1", "5", "0">> /\ weight = <<"1", "0", "0">>)
                 => /\ out[1].text = <<"BMI: **", "4", "4", ".", "4", "**">>
                    /\ out[2] = Call("error", <<LABEL_OBESE_2>>)

====
